---------------------------- MODULE Spec2Model ----------------------------
(***************************************************************************)
(* Model of qiime/estimate_observation_richness.py: the                    *)
(* ObservationRichnessEstimator engine, the Chao1 full-richness estimator  *)
(* and the multinomial point estimator (Colwell 2012, eq. 4, 5, 9, 10).    *)
(*                                                                         *)
(* Numbers.  The module runs with "from __future__ import division" on     *)
(* numpy scalars, so "/" is true division and a division by zero yields    *)
(* inf or nan instead of raising.  A number is a pair <<n, d>>: d > 0 is   *)
(* the rational n/d in lowest terms, <<1,0>> and <<-1,0>> are +inf and     *)
(* -inf, <<0,0>> is nan.  Rounding of float64 is not modelled.             *)
(***************************************************************************)
EXTENDS Integers, Sequences, FiniteSets, TLC

(***************************************************************************)
(* Bounds of the model.                                                    *)
(***************************************************************************)
MaxSamples == 2      \* samples of a table
NumObs == 2          \* observations (rows) of a table
MaxTotal == 4        \* individuals recorded in a whole table
MaxStart == 2        \* largest start argument
MaxStop == 4         \* largest stop argument
MaxStep == 2         \* largest step_size argument

\* Python values of the arguments of __call__ (line 58): None, the default
\* of stop and step_size, or an integer.
None == <<>>
PyInt(v) == <<v>>
IntOf(a) == a[1]

(***************************************************************************)
(* Arithmetic on numbers.                                                  *)
(***************************************************************************)
Abs(x) == IF x < 0 THEN -x ELSE x

Sign(x) == IF x < 0 THEN -1 ELSE IF x > 0 THEN 1 ELSE 0

RECURSIVE Gcd(_, _)
Gcd(a, b) == IF b = 0 THEN a ELSE Gcd(b, a % b)

Norm(n, d) ==
    IF d = 0 THEN <<Sign(n), 0>>
    ELSE LET s == IF d < 0 THEN -1 ELSE 1
             g == Gcd(Abs(n), Abs(d))
         IN  <<(s * n) \div g, (s * d) \div g>>

Num(i) == <<i, 1>>
NaN == <<0, 0>>
IsNaN(a) == a = NaN
IsInf(a) == a[2] = 0 /\ a[1] # 0
IsFinite(a) == a[2] > 0

RAdd(a, b) ==
    IF IsNaN(a) \/ IsNaN(b) THEN NaN
    ELSE IF IsInf(a) THEN (IF IsInf(b) /\ b # a THEN NaN ELSE a)
    ELSE IF IsInf(b) THEN b
    ELSE Norm(a[1] * b[2] + b[1] * a[2], a[2] * b[2])

RNeg(a) == <<-a[1], a[2]>>

RSub(a, b) == RAdd(a, RNeg(b))

RMul(a, b) ==
    IF IsNaN(a) \/ IsNaN(b) THEN NaN
    ELSE Norm(a[1] * b[1], a[2] * b[2])

\* numpy true division: x/0 is +-inf, 0/0 and inf/inf are nan (the zero
\* divisors met here are +0.0).
RDiv(a, b) ==
    IF IsNaN(a) \/ IsNaN(b) THEN NaN
    ELSE IF IsInf(b) THEN (IF IsInf(a) THEN NaN ELSE Num(0))
    ELSE IF IsInf(a) THEN (IF b[1] < 0 THEN RNeg(a) ELSE a)
    ELSE Norm(a[1] * b[2], a[2] * b[1])

RECURSIVE RPow(_, _)
RPow(a, e) == IF e = 0 THEN Num(1) ELSE RMul(a, RPow(a, e - 1))

\* a <= b; any comparison with nan is false.
RLeq(a, b) ==
    /\ ~IsNaN(a)
    /\ ~IsNaN(b)
    /\ IF IsInf(a) THEN (a[1] < 0 \/ a = b)
       ELSE IF IsInf(b) THEN b[1] > 0
       ELSE a[1] * b[2] <= b[1] * a[2]

RECURSIVE factorial(_)
factorial(x) == IF x <= 0 THEN 1 ELSE x * factorial(x - 1)

RECURSIVE SumSeq(_)
SumSeq(s) == IF s = <<>> THEN 0 ELSE Head(s) + SumSeq(Tail(s))

(***************************************************************************)
(* Results of calls: a value, or the exception the call raised.            *)
(***************************************************************************)
Ok(v) == [err |-> "none", val |-> v]
Raise(e) == [err |-> e, val |-> NaN]

\* numpy.sqrt: nan for a negative or nan argument.  The root of a rational
\* is kept symbolic: form "sqrt" stands for the square root of arg, form
\* "raw" for arg itself.
sqrt(x) ==
    IF IsNaN(x) \/ (~RLeq(Num(0), x)) THEN [form |-> "raw", arg |-> NaN]
    ELSE [form |-> "sqrt", arg |-> x]

Raw(x) == [form |-> "raw", arg |-> x]

(***************************************************************************)
(* Per-sample summaries (ObservationRichnessEstimator, lines 39-56).       *)
(* A table is a sequence of samples, a sample the sequence of its counts   *)
(* over the observations.                                                  *)
(***************************************************************************)
RECURSIVE CountIf(_, _)
CountIf(s, v) ==
    IF s = <<>> THEN 0
    ELSE (IF Head(s) = v THEN 1 ELSE 0) + CountIf(Tail(s), v)

RECURSIVE CountPositive(_)
CountPositive(s) ==
    IF s = <<>> THEN 0
    ELSE (IF Head(s) > 0 THEN 1 ELSE 0) + CountPositive(Tail(s))

isEmpty(t) == Len(t) = 0

getSampleCount(t) == Len(t)

getTotalIndividualCounts(t) == [i \in 1..Len(t) |-> SumSeq(t[i])]

getObservationCounts(t) == [i \in 1..Len(t) |-> CountPositive(t[i])]

getAbundanceFrequencyCounts(t) ==
    [i \in 1..Len(t) |->
        [k \in 1..getTotalIndividualCounts(t)[i] |-> CountIf(t[i], k)]]

(***************************************************************************)
(* _get_points_to_estimate (lines 89-102).                                 *)
(***************************************************************************)
\* "<" of Python 2, which orders None below every number.
PyLt(a, b) ==
    IF a = None THEN b # None
    ELSE IF b = None THEN FALSE
    ELSE IntOf(a) < IntOf(b)

RECURSIVE range(_, _, _)
range(lo, hi, step) ==
    IF lo >= hi THEN <<>> ELSE <<lo>> \o range(lo + step, hi, step)

Contains(s, v) == \E i \in 1..Len(s) : s[i] = v

\* bisect.insort (insort_right): after the entries <= v.
RECURSIVE insort(_, _)
insort(s, v) ==
    IF s = <<>> THEN <<v>>
    ELSE IF v < Head(s) THEN <<v>> \o s
    ELSE <<Head(s)>> \o insort(Tail(s), v)

\* Variant: stop taken as exclusive, range(start, stop, step_size).
GetPointsExclusiveStop(start, stop, step_size, reference_individual_count) ==
    IF PyLt(start, PyInt(1)) \/ PyLt(step_size, PyInt(1))
    THEN Raise("ValueError")
    ELSE IF PyLt(stop, start) THEN Raise("ValueError")
    ELSE LET points == range(IntOf(start), IntOf(stop), IntOf(step_size))
         IN  IF ~Contains(points, reference_individual_count)
             THEN Ok(insort(points, reference_individual_count))
             ELSE Ok(points)

\* Variant: the test of line 91 written start < 0.
GetPointsStartFromZero(start, stop, step_size, reference_individual_count) ==
    IF PyLt(start, PyInt(0)) \/ PyLt(step_size, PyInt(1))
    THEN Raise("ValueError")
    ELSE IF PyLt(stop, start) THEN Raise("ValueError")
    ELSE LET points == range(IntOf(start), IntOf(stop) + 1, IntOf(step_size))
         IN  IF ~Contains(points, reference_individual_count)
             THEN Ok(insort(points, reference_individual_count))
             ELSE Ok(points)

_get_points_to_estimate(start, stop, step_size, reference_individual_count) ==
    IF PyLt(start, PyInt(1)) \/ PyLt(step_size, PyInt(1))
    THEN Raise("ValueError")
    ELSE IF PyLt(stop, start) THEN Raise("ValueError")
    ELSE LET points == range(IntOf(start), IntOf(stop) + 1, IntOf(step_size))
         IN  IF ~Contains(points, reference_individual_count)
             THEN Ok(insort(points, reference_individual_count))
             ELSE Ok(points)

(***************************************************************************)
(* Chao1FullRichnessEstimator (lines 105-132).  fk is the list of          *)
(* abundance frequency counts; fk[k] here is fk[k - 1] of the source.      *)
(***************************************************************************)
\* Variant: "/" as the floor division of integers (no true division).
Chao1FloorDivision(fk) ==
    IF Len(fk) < 2 THEN Raise("IndexError")
    ELSE LET f1 == fk[1]
             f2 == fk[2]
         IN  IF f1 < 0 \/ f2 < 0 THEN Raise("ValueError")
             ELSE IF f2 > 0
                  THEN Ok(Num((f1 * f1) \div (2 * f2)))
                  ELSE Ok(Num((f1 * (f1 - 1)) \div (2 * (f2 + 1))))

estimateUnobservedObservationCount(fk) ==
    IF Len(fk) < 2 THEN Raise("IndexError")
    ELSE LET f1 == fk[1]
             f2 == fk[2]
         IN  IF f1 < 0 \/ f2 < 0 THEN Raise("ValueError")
             ELSE IF f2 > 0
                  THEN Ok(RDiv(Num(f1 * f1), Num(2 * f2)))
                  ELSE Ok(RDiv(Num(f1 * (f1 - 1)), Num(2 * (f2 + 1))))

estimateFullRichness(fk, observation_count) ==
    LET u == estimateUnobservedObservationCount(fk)
    IN  IF u.err # "none" THEN u
        ELSE Ok(RAdd(Num(observation_count), u.val))

(***************************************************************************)
(* MultinomialPointEstimator (lines 147-223).                              *)
(***************************************************************************)
_calculate_alpha_km(n, k, m) ==
    IF k <= n - m
    THEN RDiv(Num(factorial(n - k) * factorial(n - m)),
              Num(factorial(n) * factorial(n - k - m)))
    ELSE Num(0)

_calculate_covariance(f_i, f_j, s_obs, f_hat, same_var) ==
    IF same_var
    THEN RMul(Num(f_i),
              RSub(Num(1), RDiv(Num(f_i), RAdd(Num(s_obs), f_hat))))
    ELSE RDiv(RNeg(Num(f_i * f_j)), RAdd(Num(s_obs), f_hat))

\* The loop of lines 154-158: sum over k = 1..upto of alpha_km * fk[k - 1].
RECURSIVE AlphaSum(_, _, _, _)
AlphaSum(n, m, fk, upto) ==
    IF upto = 0 THEN Num(0)
    ELSE RAdd(AlphaSum(n, m, fk, upto - 1),
              RMul(_calculate_alpha_km(n, upto, m), Num(fk[upto])))

\* Variant: the interpolation regime taken as m < n.
ExpectedCountStrictRegime(m, n, fk, s_obs) ==
    IF m < n
    THEN Ok(RSub(Num(s_obs), AlphaSum(n, m, fk, n)))
    ELSE LET m_star == m - n
             r == estimateUnobservedObservationCount(fk)
         IN  IF r.err # "none" THEN r
             ELSE LET f_hat == r.val
                      f1 == fk[1]
                  IN  Ok(RAdd(Num(s_obs),
                           RMul(f_hat,
                             RSub(Num(1),
                               RPow(RSub(Num(1),
                                      RDiv(Num(f1), RMul(Num(n), f_hat))),
                                    m_star)))))

estimateExpectedObservationCount(m, n, fk, s_obs) ==
    IF m <= n
    THEN Ok(RSub(Num(s_obs), AlphaSum(n, m, fk, n)))
    ELSE LET m_star == m - n
             r == estimateUnobservedObservationCount(fk)
         IN  IF r.err # "none" THEN r
             ELSE LET f_hat == r.val
                      f1 == fk[1]
                  IN  Ok(RAdd(Num(s_obs),
                           RMul(f_hat,
                             RSub(Num(1),
                               RPow(RSub(Num(1),
                                      RDiv(Num(f1), RMul(Num(n), f_hat))),
                                    m_star)))))

\* The loop of lines 182-186: sum over k of (1 - alpha_km)**2 * fk[k - 1].
RECURSIVE VarSum(_, _, _, _)
VarSum(n, m, fk, upto) ==
    IF upto = 0 THEN Num(0)
    ELSE LET c == RSub(Num(1), _calculate_alpha_km(n, upto, m))
         IN  RAdd(VarSum(n, m, fk, upto - 1),
                  RMul(RMul(c, c), Num(fk[upto])))

\* The loops of lines 197-203 over i, j = 1..n, in the order t = 1..n*n.
RECURSIVE CovSum(_, _, _, _, _)
CovSum(n, fk, s_obs, f_hat, t) ==
    IF t = 0 THEN Num(0)
    ELSE LET i == ((t - 1) \div n) + 1
             j == ((t - 1) % n) + 1
         IN  RAdd(CovSum(n, fk, s_obs, f_hat, t - 1),
                  _calculate_covariance(fk[i], fk[j], s_obs, f_hat, i = j))

estimateExpectedObservationCountStdErr(m, n, fk, s_obs, s_m) ==
    IF m <= n
    THEN LET r == estimateFullRichness(fk, s_obs)
         IN  IF r.err # "none" THEN r
             ELSE LET s_est == r.val
                      accumulation == VarSum(n, m, fk, n)
                  IN  Ok(sqrt(RSub(accumulation,
                                   RDiv(RMul(s_m, s_m), s_est))))
    ELSE LET r == estimateUnobservedObservationCount(fk)
         IN  IF r.err # "none" THEN r
             ELSE Ok(Raw(CovSum(n, fk, s_obs, r.val, n * n)))

(***************************************************************************)
(* The engine as a state machine.                                          *)
(***************************************************************************)
VARIABLES
    pc,                  \* new, ready, failed, loop, points, returned, raised
    biom_table,          \* the table handed to the constructor
    self,                \* the fields __init__ has assigned
    error,               \* the exception that ended __init__ or __call__
    start, stop, step_size,     \* the arguments of __call__
    idx,                 \* the sample the loop of line 61 is at
    sizes, pos,          \* the depths of that sample, and the one line 74 is at
    size_results, per_sample_results

vars == <<pc, biom_table, self, error, start, stop, step_size, idx, sizes,
          pos, size_results, per_sample_results>>

Samples ==
    {s \in [1..NumObs -> 0..MaxTotal] : SumSeq(s) <= MaxTotal}

RECURSIVE TableTotal(_)
TableTotal(t) ==
    IF t = <<>> THEN 0 ELSE SumSeq(Head(t)) + TableTotal(Tail(t))

Tables ==
    {t \in UNION {[1..k -> Samples] : k \in 0..MaxSamples} :
        TableTotal(t) <= MaxTotal}

Unset == [_biom_table |-> FALSE,
          FullRichnessEstimator |-> "unset",
          PointEstimator |-> "unset"]

Init ==
    /\ pc = "new"
    /\ biom_table \in Tables
    /\ self = Unset
    /\ error = "none"
    /\ start = None /\ stop = None /\ step_size = None
    /\ idx = 0
    /\ sizes = <<>> /\ pos = 0
    /\ size_results = <<>>
    /\ per_sample_results = <<>>

\* Variant of __init__: the loop of lines 31-34 tests c < 0.
ConstructNegativeOnly ==
    /\ pc = "new"
    /\ IF isEmpty(biom_table)
       THEN /\ error' = "EmptyTableError"
            /\ pc' = "failed"
            /\ self' = self
       ELSE IF \E i \in 1..Len(biom_table) :
                   getTotalIndividualCounts(biom_table)[i] < 0
       THEN /\ error' = "EmptySampleError"
            /\ pc' = "failed"
            /\ self' = [self EXCEPT !._biom_table = TRUE]
       ELSE /\ error' = error
            /\ pc' = "ready"
            /\ self' = [_biom_table |-> TRUE,
                        FullRichnessEstimator |-> "Chao1FullRichnessEstimator",
                        PointEstimator |-> "MultinomialPointEstimator"]
    /\ UNCHANGED <<biom_table, start, stop, step_size, idx, sizes, pos,
                   size_results, per_sample_results>>

\* __init__ (lines 26-37).
Construct ==
    /\ pc = "new"
    /\ IF isEmpty(biom_table)
       THEN /\ error' = "EmptyTableError"
            /\ pc' = "failed"
            /\ self' = self
       ELSE IF \E i \in 1..Len(biom_table) :
                   getTotalIndividualCounts(biom_table)[i] < 1
       THEN /\ error' = "EmptySampleError"
            /\ pc' = "failed"
            /\ self' = [self EXCEPT !._biom_table = TRUE]
       ELSE /\ error' = error
            /\ pc' = "ready"
            /\ self' = [_biom_table |-> TRUE,
                        FullRichnessEstimator |-> "Chao1FullRichnessEstimator",
                        PointEstimator |-> "MultinomialPointEstimator"]
    /\ UNCHANGED <<biom_table, start, stop, step_size, idx, sizes, pos,
                   size_results, per_sample_results>>

\* __call__ is entered (lines 58-59); an omitted stop or step_size is None.
Call ==
    /\ pc = "ready"
    /\ \E a \in 0..MaxStart :
       \E b \in {None} \cup {PyInt(v) : v \in 0..MaxStop} :
       \E c \in {None} \cup {PyInt(v) : v \in 0..MaxStep} :
          /\ start' = PyInt(a)
          /\ stop' = b
          /\ step_size' = c
    /\ per_sample_results' = <<>>
    /\ idx' = 1
    /\ pc' = "loop"
    /\ UNCHANGED <<biom_table, self, error, sizes, pos, size_results>>

\* The next sample of the loop of line 61, up to line 73.
GetPoints ==
    /\ pc = "loop"
    /\ idx <= getSampleCount(biom_table)
    /\ LET n == getTotalIndividualCounts(biom_table)[idx]
           r == _get_points_to_estimate(start, stop, step_size, n)
       IN  IF r.err # "none"
           THEN /\ error' = r.err
                /\ pc' = "raised"
                /\ UNCHANGED <<sizes, pos, size_results>>
           ELSE /\ sizes' = r.val
                /\ pos' = 1
                /\ size_results' = <<>>
                /\ pc' = "points"
                /\ error' = error
    /\ UNCHANGED <<biom_table, self, start, stop, step_size, idx,
                   per_sample_results>>

\* One pass of the loop of line 74 (lines 75-84).
EstimatePoint ==
    /\ pc = "points"
    /\ pos <= Len(sizes)
    /\ LET size == sizes[pos]
           n == getTotalIndividualCounts(biom_table)[idx]
           num_obs == getObservationCounts(biom_table)[idx]
           abundance_freqs == getAbundanceFrequencyCounts(biom_table)[idx]
           exp_obs_count ==
               estimateExpectedObservationCount(size, n, abundance_freqs,
                                                num_obs)
           exp_obs_count_se ==
               estimateExpectedObservationCountStdErr(size, n,
                   abundance_freqs, num_obs, exp_obs_count.val)
       IN  IF exp_obs_count.err # "none"
           THEN /\ error' = exp_obs_count.err
                /\ pc' = "raised"
                /\ UNCHANGED <<pos, size_results>>
           ELSE IF exp_obs_count_se.err # "none"
           THEN /\ error' = exp_obs_count_se.err
                /\ pc' = "raised"
                /\ UNCHANGED <<pos, size_results>>
           ELSE /\ size_results' =
                      Append(size_results,
                             <<size, exp_obs_count.val, exp_obs_count_se.val>>)
                /\ pos' = pos + 1
                /\ UNCHANGED <<pc, error>>
    /\ UNCHANGED <<biom_table, self, start, stop, step_size, idx, sizes,
                   per_sample_results>>

\* The loop of line 74 is over: line 85.
AppendSample ==
    /\ pc = "points"
    /\ pos > Len(sizes)
    /\ per_sample_results' = Append(per_sample_results, size_results)
    /\ idx' = idx + 1
    /\ pc' = "loop"
    /\ UNCHANGED <<biom_table, self, error, start, stop, step_size, sizes,
                   pos, size_results>>

\* The loop of line 61 is over: line 87.
Return ==
    /\ pc = "loop"
    /\ idx > getSampleCount(biom_table)
    /\ pc' = "returned"
    /\ UNCHANGED <<biom_table, self, error, start, stop, step_size, idx,
                   sizes, pos, size_results, per_sample_results>>

Next ==
    \/ Construct
    \/ Call
    \/ GetPoints
    \/ EstimatePoint
    \/ AppendSample
    \/ Return

Spec == Init /\ [][Next]_vars

(***************************************************************************)
(* Properties.                                                             *)
(***************************************************************************)
InCall == pc \in {"loop", "points", "returned", "raised"}

Constructed == pc \in {"ready", "loop", "points", "returned", "raised"}

\* The summaries of sample i, read off the table.
TotalOf(i) == SumSeq(biom_table[i])
SObsOf(i) == Cardinality({j \in 1..NumObs : biom_table[i][j] > 0})
FkOf(i) ==
    [k \in 1..TotalOf(i) |->
        Cardinality({j \in 1..NumObs : biom_table[i][j] = k})]

\* The points the engine has produced so far for sample i.
CurveOf(i) ==
    IF i <= Len(per_sample_results) THEN per_sample_results[i]
    ELSE IF pc \in {"points", "raised"} /\ i = idx THEN size_results
    ELSE <<>>

\* C1: at depth m = n the expected richness of every sample of a valid
\* table is s_obs exactly, every weight alpha(n, k, n) being 0; the point
\* the engine produces at depth n carries that value.
C1_AnchorIsObserved ==
    /\ (pc = "ready") =>
           \A i \in 1..Len(biom_table) :
               LET n == TotalOf(i)
               IN  /\ \A k \in 1..n : _calculate_alpha_km(n, k, n) = Num(0)
                   /\ estimateExpectedObservationCount(n, n, FkOf(i),
                                                       SObsOf(i))
                          = Ok(Num(SObsOf(i)))
    /\ \A i \in 1..Len(biom_table) :
           \A j \in 1..Len(CurveOf(i)) :
               CurveOf(i)[j][1] = TotalOf(i)
                   => CurveOf(i)[j][2] = Num(SObsOf(i))

C1_Witness ==
    /\ pc = "returned"
    /\ Len(biom_table) = 2
    /\ \E j \in 1..Len(per_sample_results[2]) :
           /\ per_sample_results[2][j][1] = TotalOf(2)
           /\ per_sample_results[2][j][2] = Num(SObsOf(2))
           /\ SObsOf(2) = 2

ArgsAreIntegers == stop # None /\ step_size # None

ValidArgs ==
    /\ ArgsAreIntegers
    /\ IntOf(start) >= 1
    /\ IntOf(step_size) >= 1
    /\ IntOf(stop) >= IntOf(start)

\* The depths start, start + step_size, ... up to stop.
Arithmetic ==
    {d \in IntOf(start)..IntOf(stop) :
        (d - IntOf(start)) % IntOf(step_size) = 0}

\* C3: the depth list of a sample is strictly ascending, holds n, and is
\* exactly {start + i * stepSize <= stop} united with {n}.
C3_DepthList ==
    /\ (InCall /\ ValidArgs) => error # "ValueError"
    /\ (pc = "points") =>
        LET n == TotalOf(idx)
        IN  /\ ValidArgs
            /\ \A i \in 1..(Len(sizes) - 1) : sizes[i] < sizes[i + 1]
            /\ \E i \in 1..Len(sizes) : sizes[i] = n
            /\ {sizes[i] : i \in 1..Len(sizes)} = Arithmetic \cup {n}

\* n falls in a gap of the arithmetic sequence and is inserted there.
C3_Witness ==
    /\ pc = "points"
    /\ TotalOf(idx) \notin Arithmetic
    /\ IntOf(start) < TotalOf(idx)
    /\ TotalOf(idx) < IntOf(stop)
    /\ Len(sizes) = 3
    /\ sizes[2] = TotalOf(idx)

InvalidArgs ==
    /\ ArgsAreIntegers
    /\ \/ IntOf(start) < 1
       \/ IntOf(step_size) < 1
       \/ IntOf(start) > IntOf(stop)

\* C5: a call with start < 1, stepSize < 1 or start > stop ends in
\* ValueError at the first sample, before any point is estimated, and
\* returns no curve.
C5_InvalidArgsRaise ==
    (InCall /\ InvalidArgs) =>
        /\ idx = 1
        /\ per_sample_results = <<>>
        /\ size_results = <<>>
        /\ \/ pc = "loop" /\ error = "none" /\ ENABLED GetPoints
           \/ pc = "raised" /\ error = "ValueError"

C5_Witness ==
    /\ pc = "raised"
    /\ error = "ValueError"
    /\ ArgsAreIntegers
    /\ IntOf(start) >= 1
    /\ IntOf(step_size) >= 1
    /\ IntOf(start) > IntOf(stop)
    /\ Len(biom_table) = 2

\* C6: construction fails with EmptyTableError on a table without samples,
\* with EmptySampleError on a table with samples one of which has a total
\* below 1, and otherwise succeeds and stores both strategy objects.
C6_Construction ==
    (pc # "new") =>
        IF Len(biom_table) = 0
        THEN pc = "failed" /\ error = "EmptyTableError" /\ self = Unset
        ELSE IF \E i \in 1..Len(biom_table) : TotalOf(i) < 1
        THEN /\ pc = "failed"
             /\ error = "EmptySampleError"
             /\ self.FullRichnessEstimator = "unset"
             /\ self.PointEstimator = "unset"
        ELSE /\ Constructed
             /\ error \notin {"EmptyTableError", "EmptySampleError"}
             /\ self.FullRichnessEstimator = "Chao1FullRichnessEstimator"
             /\ self.PointEstimator = "MultinomialPointEstimator"

\* The first sample has individuals, the second has none.
C6_Witness ==
    /\ pc = "failed"
    /\ error = "EmptySampleError"
    /\ Len(biom_table) = 2
    /\ TotalOf(1) >= 1
    /\ TotalOf(2) = 0

\* What lines 127-132 and 109-110 are to return for sample i.
Chao1Exact(i) ==
    LET f1 == FkOf(i)[1]
        f2 == FkOf(i)[2]
        u == estimateUnobservedObservationCount(FkOf(i))
        s == estimateFullRichness(FkOf(i), SObsOf(i))
    IN  /\ u.err = "none"
        /\ IsFinite(u.val)
        /\ f2 > 0 => u.val[1] * (2 * f2) = f1 * f1 * u.val[2]
        /\ f2 = 0 => u.val[1] * 2 = f1 * (f1 - 1) * u.val[2]
        /\ s.err = "none"
        /\ IsFinite(s.val)
        /\ s.val[1] * u.val[2] = (SObsOf(i) * u.val[2] + u.val[1]) * s.val[2]

\* C7: the Chao1 estimate of the unobserved count is f1^2 / (2 f2) when
\* f2 > 0 and f1 (f1 - 1) / 2 when f2 = 0, as an exact rational, and the
\* full richness is s_obs plus that value.
C7_Chao1 ==
    /\ (pc = "ready") =>
           \A i \in 1..Len(biom_table) : TotalOf(i) >= 2 => Chao1Exact(i)
    /\ (pc = "points" /\ TotalOf(idx) >= 2) => Chao1Exact(idx)

\* The engine has produced an interpolated point, standard error included,
\* of a sample whose estimate 1/2 is no integer.
C7_Witness ==
    /\ pc = "points"
    /\ pos > 1
    /\ size_results[1][1] <= TotalOf(idx)
    /\ FkOf(idx)[1] = 1
    /\ FkOf(idx)[2] = 1
    /\ estimateUnobservedObservationCount(FkOf(idx)).val = <<1, 2>>

\* The depth list of sample i under the arguments of the call.
DepthsOf(i) == _get_points_to_estimate(start, stop, step_size, TotalOf(i)).val

\* C2: on a valid table and valid arguments the call raises nothing and
\* returns one curve per sample, in table order, with one point per depth
\* of the sample's depth list, in ascending order.
C2_CallReturnsCurves ==
    (InCall /\ ValidArgs) =>
        /\ pc # "raised"
        /\ error = "none"
        /\ pc = "returned" =>
               /\ Len(per_sample_results) = Len(biom_table)
               /\ \A i \in 1..Len(biom_table) :
                      /\ Len(per_sample_results[i]) = Len(DepthsOf(i))
                      /\ \A j \in 1..Len(DepthsOf(i)) :
                             per_sample_results[i][j][1] = DepthsOf(i)[j]

\* C4: a call that omits stop and step_size does not fail, and the depths
\* of each sample end at the sample's own total n.
C4_DefaultStop ==
    (InCall /\ IntOf(start) >= 1 /\ stop = None /\ step_size = None) =>
        /\ pc # "raised"
        /\ pc = "points" => sizes[Len(sizes)] = TotalOf(idx)
        /\ pc = "returned" => Len(per_sample_results) = Len(biom_table)

\* C8: along the curve of a sample the expected richness never decreases
\* as the depth grows, below, above and across the depth n.
C8_Monotone ==
    \A i \in 1..Len(biom_table) :
        \A j, k \in 1..Len(CurveOf(i)) :
            CurveOf(i)[j][1] < CurveOf(i)[k][1]
                => RLeq(CurveOf(i)[j][2], CurveOf(i)[k][2])

\* C9: a point above the depth n of a sample whose estimated unobserved
\* count is 0 has the expected richness s_obs.
C9_ZeroUnobserved ==
    \A i \in 1..Len(biom_table) :
        \A j \in 1..Len(CurveOf(i)) :
            (/\ CurveOf(i)[j][1] > TotalOf(i)
             /\ estimateUnobservedObservationCount(FkOf(i)).val = Num(0))
                => CurveOf(i)[j][2] = Num(SObsOf(i))

\* C10: every point the engine produces has a depth >= 1, an expected
\* richness >= 0 and a standard error that is a real number >= 0.
C10_PointsWellFormed ==
    \A i \in 1..Len(biom_table) :
        \A j \in 1..Len(CurveOf(i)) :
            LET point == CurveOf(i)[j]
            IN  /\ point[1] >= 1
                /\ IsFinite(point[2])
                /\ RLeq(Num(0), point[2])
                /\ IsFinite(point[3].arg)
                /\ RLeq(Num(0), point[3].arg)

=============================================================================
